---- MODULE Spec2Model ----
(***************************************************************************)
(* Bank-Form-Assistance-Agent: the coordinate-driven overlay and merge     *)
(* engine of fill_form.py, and the sessions of app.py and the main program *)
(* of chatbot.py that call it.                                             *)
(*                                                                          *)
(* Conventions of the model                                                 *)
(*   - a Python str is a sequence of one-character strings;                 *)
(*   - a Python dict (a JSON object) is a function whose DOMAIN is the set  *)
(*     of keys that are present; d.get(k, default) is Get(d, k, default);   *)
(*   - lengths and coordinates are integers counted in tenths of a point    *)
(*     (18.5 pt is 185); a font size is an integer number of points;        *)
(*   - a colour component is an integer counted in 510ths (0.5 is 255, a    *)
(*     byte b of '#RRGGBB' is b/255 = 2b/510);                              *)
(*   - a PDF document is a sequence of pages, a page a record               *)
(*     [w, h, marks], marks the sequence of its content operations.         *)
(***************************************************************************)
EXTENDS Integers, Sequences, FiniteSets, TLC

VARIABLES
    disk,      \* the file system: path -> file content
    pc,        \* per caller: position inside fill_pdf_from_chatbot / fill_pdf_form
    args,      \* per caller: the arguments of the call in progress
    forms,     \* per caller: the object load_field_coordinates returned
    formIdx,   \* per caller: index in forms of form_data (fields aliases forms[formIdx].form_fields)
    input_pdf, \* per caller: local input_pdf
    output_pdf,\* per caller: local output_pdf
    reader,    \* per caller: PdfReader(input_pdf).pages (page 0 is merged in place)
    overlay,   \* per caller: the page create_text_overlay produced
    writer,    \* per caller: PdfWriter pages
    result,    \* per caller: the returned value / raised exception
    prior,     \* per caller: the calls that had returned a path when this call began
    calls,     \* number of calls begun so far
    rFields,   \* create_text_overlay under test: fields
    rHeight,   \* create_text_overlay under test: page_height
    rSettings, \* create_text_overlay under test: pdf_settings
    rGlobal,   \* create_text_overlay under test: resolved global settings
    rIdx,      \* create_text_overlay under test: number of fields the loop has processed
    rCan,      \* create_text_overlay under test: the canvas
    rPc,       \* create_text_overlay under test: position
    sFamily,   \* resolve_font_name under test: family
    sBold,     \* resolve_font_name under test: bold
    sHex,      \* hex_to_rgb under test: hex_color
    sFont,     \* resolve_font_name under test: the name returned
    sRgb,      \* hex_to_rgb under test: the tuple returned, or the ValueError
    sPc,       \* the style functions under test: position
    sessions,  \* app.py: the sessions dict, session_id -> session
    req,       \* app.py: per worker thread, the request it is handling and its locals
    resp,      \* app.py: per worker thread, the last response it returned
    requests,  \* app.py: number of requests received so far
    cli,       \* chatbot.py run as the main program: its position and its locals
    assistant  \* chatbot.py run as the main program: the FormAssistant instance

vars == <<disk, pc, args, forms, formIdx, input_pdf, output_pdf, reader, overlay,
          writer, result, prior, calls, rFields, rHeight, rSettings, rGlobal, rIdx, rCan, rPc,
          sFamily, sBold, sHex, sFont, sRgb, sPc, sessions, req, resp, requests,
          cli, assistant>>

fillVars == <<disk, pc, args, forms, formIdx, input_pdf, output_pdf, reader, overlay,
              writer, result, prior, calls>>

renderVars == <<rFields, rHeight, rSettings, rGlobal, rIdx, rCan, rPc>>

styleVars == <<sFamily, sBold, sHex, sFont, sRgb, sPc>>

appVars == <<sessions, req, resp, requests>>

cliVars == <<cli, assistant>>

----------------------------------------------------------------------------
(* Python built-ins *)

Get(d, k, default) == IF k \in DOMAIN d THEN d[k] ELSE default

Abs(n) == IF n < 0 THEN -n ELSE n

Max(a, b) == IF a >= b THEN a ELSE b

Min(a, b) == IF a <= b THEN a ELSE b

\* int(a / b) for b # 0: float division, then truncation toward zero
TruncDiv(a, b) ==
    IF (a >= 0) = (b > 0) THEN Abs(a) \div Abs(b) ELSE -(Abs(a) \div Abs(b))

\* lines[:n]
Take(s, n) == SubSeq(s, 1, Min(Len(s), Max(n, 0)))

\* s[n:]
Drop(s, n) == SubSeq(s, Min(n, Len(s)) + 1, Len(s))

StartsWith(s, p) == Len(p) <= Len(s) /\ SubSeq(s, 1, Len(p)) = p

\* str.replace(old, new): every non-overlapping occurrence, left to right
RECURSIVE Replace(_, _, _)
Replace(s, old, new) ==
    IF s = <<>> THEN <<>>
    ELSE IF StartsWith(s, old) THEN new \o Replace(Drop(s, Len(old)), old, new)
    ELSE <<Head(s)>> \o Replace(Tail(s), old, new)

\* str.lstrip(ch)
RECURSIVE LStrip(_, _)
LStrip(s, ch) == IF s # <<>> /\ Head(s) = ch THEN LStrip(Tail(s), ch) ELSE s

\* str.split(sep) for a one-character sep: empty pieces are kept
RECURSIVE SplitOn(_, _, _)
SplitOn(s, sep, cur) ==
    IF s = <<>> THEN <<cur>>
    ELSE IF Head(s) = sep THEN <<cur>> \o SplitOn(Tail(s), sep, <<>>)
    ELSE SplitOn(Tail(s), sep, Append(cur, Head(s)))

\* str.split(): runs of whitespace separate, empty pieces are dropped
RECURSIVE SplitWords(_, _)
SplitWords(s, cur) ==
    IF s = <<>> THEN (IF cur = <<>> THEN <<>> ELSE <<cur>>)
    ELSE IF Head(s) = " "
         THEN (IF cur = <<>> THEN <<>> ELSE <<cur>>) \o SplitWords(Tail(s), <<>>)
    ELSE SplitWords(Tail(s), Append(cur, Head(s)))

\* ' '.join(words)
RECURSIVE JoinWords(_)
JoinWords(ws) ==
    IF ws = <<>> THEN <<>>
    ELSE IF Len(ws) = 1 THEN ws[1]
    ELSE ws[1] \o <<" ">> \o JoinWords(Tail(ws))

----------------------------------------------------------------------------
(* Styling: fill_form.py lines 17-38 *)

DEFAULT_FONT_SIZE == 10

DEFAULT_BOLD == TRUE

DEFAULT_COLOR == <<0, 0, 255>>

DEFAULT_FONT_FAMILY == "Helvetica"

HexDigits ==
    ("0" :> 0) @@ ("1" :> 1) @@ ("2" :> 2) @@ ("3" :> 3) @@ ("4" :> 4) @@
    ("5" :> 5) @@ ("6" :> 6) @@ ("7" :> 7) @@ ("8" :> 8) @@ ("9" :> 9) @@
    ("a" :> 10) @@ ("b" :> 11) @@ ("c" :> 12) @@ ("d" :> 13) @@ ("e" :> 14) @@
    ("f" :> 15) @@ ("A" :> 10) @@ ("B" :> 11) @@ ("C" :> 12) @@ ("D" :> 13) @@
    ("E" :> 14) @@ ("F" :> 15)

\* str.strip() of the blanks at both ends
RECURSIVE Strip(_)
Strip(s) ==
    IF s # <<>> /\ Head(s) = " " THEN Strip(Tail(s))
    ELSE IF s # <<>> /\ s[Len(s)] = " " THEN Strip(SubSeq(s, 1, Len(s) - 1))
    ELSE s

\* the digits int(s, 16) reads: blanks around are stripped, one sign is allowed
IntBody(s) ==
    LET t == Strip(s) IN IF t # <<>> /\ Head(t) \in {"+", "-"} THEN Tail(t) ELSE t

\* int(s, 16) is defined (raises no ValueError) when the digits are a non-empty run of
\* hex digits
IsHex(s) == IntBody(s) # <<>> /\ \A i \in 1..Len(IntBody(s)) : IntBody(s)[i] \in DOMAIN HexDigits

RECURSIVE HexInt(_)
HexInt(s) == IF s = <<>> THEN 0 ELSE 16 * HexInt(SubSeq(s, 1, Len(s) - 1)) + HexDigits[s[Len(s)]]

\* int(s, 16)
Int16(s) ==
    LET t == Strip(s) IN IF Head(t) = "-" THEN -HexInt(IntBody(s)) ELSE HexInt(IntBody(s))

\* hex_color[i:i+2] after lstrip('#'), for i in (0, 2, 4)
HexPairs(hex_color) ==
    LET h == LStrip(hex_color, "#")
    IN  [k \in 1..3 |-> SubSeq(h, Min(2 * k - 1, Len(h) + 1), Min(2 * k, Len(h)))]

\* hex_to_rgb: [ok |-> TRUE, rgb |-> triple] or [ok |-> FALSE] for a ValueError
hex_to_rgb(hex_color) ==
    LET p == HexPairs(hex_color)
    IN  IF \A k \in 1..3 : IsHex(p[k])
        THEN [ok |-> TRUE, rgb |-> [k \in 1..3 |-> 2 * Int16(p[k])]]
        ELSE [ok |-> FALSE]

Fonts ==
    ("Helvetica" :> <<"Helvetica", "Helvetica-Bold">>) @@
    ("Courier" :> <<"Courier", "Courier-Bold">>) @@
    ("Times-Roman" :> <<"Times-Roman", "Times-Bold">>)

\* faulty variant: an unknown family raises a KeyError (fonts[family] for fonts.get)
resolve_font_name_Strict(family, bold) ==
    IF family \in DOMAIN Fonts THEN (IF bold THEN Fonts[family][2] ELSE Fonts[family][1])
    ELSE "KeyError"

resolve_font_name(family, bold) ==
    LET pair == Get(Fonts, family, Fonts["Helvetica"])
    IN  IF bold THEN pair[2] ELSE pair[1]

----------------------------------------------------------------------------
(* reportlab: string metrics and simpleSplit, as called at fill_form.py:89 *)

\* stringWidth(text, font, size), in tenths of a point: every glyph 0.6 em wide
stringWidth(text, font_name, font_size) == Len(text) * font_size * 6

\* reportlab.lib.utils._simpleSplit: greedy accumulation of the words of one line
RECURSIVE WrapWords(_, _, _, _, _, _)
WrapWords(words, O, w, mW, font_name, font_size) ==
    LET ws == stringWidth(<<" ">>, font_name, font_size)
    IN  IF words = <<>> THEN (IF O # <<>> THEN <<JoinWords(O)>> ELSE <<>>)
        ELSE LET t == Head(words)
                 lt == stringWidth(t, font_name, font_size)
             IN  IF w + ws + lt <= mW \/ O = <<>>
                 THEN WrapWords(Tail(words), Append(O, t), w + ws + lt, mW, font_name, font_size)
                 ELSE <<JoinWords(O)>> \o WrapWords(Tail(words), <<t>>, lt, mW, font_name, font_size)

RECURSIVE WrapLines(_, _, _, _)
WrapLines(lines, mW, font_name, font_size) ==
    IF lines = <<>> THEN <<>>
    ELSE WrapWords(SplitWords(Head(lines), <<>>), <<>>,
                   -stringWidth(<<" ">>, font_name, font_size), mW, font_name, font_size)
         \o WrapLines(Tail(lines), mW, font_name, font_size)

\* simpleSplit(text, fontName, fontSize, maxWidth): no wrapping when maxWidth is 0
simpleSplit(text, font_name, font_size, maxWidth) ==
    LET lines == SplitOn(text, "\n", <<>>)
    IN  IF maxWidth # 0 THEN WrapLines(lines, maxWidth, font_name, font_size) ELSE lines
----------------------------------------------------------------------------
(* create_text_overlay: fill_form.py lines 41-111 *)

EmptyDict == [k \in {} |-> 0]

\* canvas.Canvas(packet, pagesize): reportlab starts in Helvetica 12, black fill
NewCanvas ==
    [font |-> "Helvetica", size |-> 12, color |-> <<0, 0, 0>>, ops |-> <<>>, raised |-> ""]

setFont(can, font_name, font_size) == [can EXCEPT !.font = font_name, !.size = font_size]

setFillColorRGB(can, rgb) == [can EXCEPT !.color = rgb]

drawString(can, x, y, text) ==
    [can EXCEPT !.ops = Append(@, [op |-> "drawString", x |-> x, y |-> y, text |-> text,
                                   font |-> can.font, size |-> can.size,
                                   color |-> can.color])]

\* lines 43-49: [ok |-> FALSE] when hex_to_rgb raises
ResolveGlobals(pdf_settings) ==
    LET color == IF "color" \in DOMAIN pdf_settings
                 THEN hex_to_rgb(pdf_settings["color"])
                 ELSE [ok |-> TRUE, rgb |-> DEFAULT_COLOR]
    IN  IF color.ok
        THEN [ok |-> TRUE,
              family |-> Get(pdf_settings, "font_family", DEFAULT_FONT_FAMILY),
              size |-> Get(pdf_settings, "font_size", DEFAULT_FONT_SIZE),
              bold |-> Get(pdf_settings, "bold", DEFAULT_BOLD),
              color |-> color.rgb]
        ELSE [ok |-> FALSE]

\* line 86: font_size * 1.3 points, in tenths of a point
LineSpacingFactor == 13

\* faulty variant: the lines climb the page instead of descending
RECURSIVE DrawLines_Upward(_, _, _, _, _, _)
DrawLines_Upward(can, x, pdf_y, line_spacing, lines, i) ==
    IF i >= Len(lines) THEN can
    ELSE DrawLines_Upward(drawString(can, x, pdf_y + (i * line_spacing), lines[i + 1]),
                          x, pdf_y, line_spacing, lines, i + 1)

\* lines 96-97: for i, line in enumerate(lines): drawString(x, pdf_y - i*line_spacing, line)
RECURSIVE DrawLines(_, _, _, _, _, _)
DrawLines(can, x, pdf_y, line_spacing, lines, i) ==
    IF i >= Len(lines) THEN can
    ELSE DrawLines(drawString(can, x, pdf_y - (i * line_spacing), lines[i + 1]),
                   x, pdf_y, line_spacing, lines, i + 1)

\* faulty variant: the first character is drawn one spacing to the right of start
RECURSIVE DrawChars_FromOne(_, _, _, _, _, _)
DrawChars_FromOne(can, x, pdf_y, spacing, value, i) ==
    IF i >= Len(value) THEN can
    ELSE DrawChars_FromOne(drawString(can, x + ((i + 1) * spacing), pdf_y, <<value[i + 1]>>),
                           x, pdf_y, spacing, value, i + 1)

\* lines 101-102: for i, char in enumerate(str(value)): drawString(x + i*spacing, pdf_y, char)
RECURSIVE DrawChars(_, _, _, _, _, _)
DrawChars(can, x, pdf_y, spacing, value, i) ==
    IF i >= Len(value) THEN can
    ELSE DrawChars(drawString(can, x + (i * spacing), pdf_y, <<value[i + 1]>>),
                   x, pdf_y, spacing, value, i + 1)

\* faulty variant: the + 1 is lost
MaxLines_NoPlusOne(box_height, line_spacing, n) ==
    IF box_height > 0 THEN Max(1, TruncDiv(box_height, line_spacing)) ELSE n

\* line 92
MaxLines(box_height, line_spacing, n) ==
    IF box_height > 0 THEN Max(1, TruncDiv(box_height, line_spacing) + 1) ELSE n

\* lines 83-97: the multiline branch
DrawMultiline(can, field, start, value, font_name, font_size, pdf_y) ==
    LET end == Get(field, "end", start)
        box_width == Abs(end[1] - start[1])
        box_height == Abs(end[2] - start[2])
        line_spacing == Get(field, "line_spacing", font_size * LineSpacingFactor)
        lines == simpleSplit(value, font_name, font_size, box_width)
    IN  IF box_height > 0 /\ line_spacing = 0
        THEN [can EXCEPT !.raised = "ZeroDivisionError"]
        ELSE DrawLines(can, start[1], pdf_y, line_spacing,
                       Take(lines, MaxLines(box_height, line_spacing, Len(lines))), 0)

\* faulty variant: y is not flipped
FlipY_None(page_height, y) == y

\* line 66: PDF coordinates start from bottom-left, so y is flipped
FlipY(page_height, y) == page_height - y

\* faulty variant: the test of value is lost
Drawable_StartOnly(field) == Get(field, "start", <<>>) # <<>>

\* line 63: if start and value
Drawable(field) == Get(field, "start", <<>>) # <<>> /\ Get(field, "value", <<>>) # <<>>

\* faulty variant: the second setFont is lost, the checkbox keeps the resolved weight
CheckboxFont_Resolved(font_name) == font_name

\* line 78: can.setFont("Helvetica-Bold", font_size)
CheckboxFont(font_name) == "Helvetica-Bold"

\* lines 55-107: one iteration of the loop over fields
RenderField(can, field, page_height, g) ==
    LET start == Get(field, "start", <<>>)
        value == Get(field, "value", <<>>)
        spacing == Get(field, "spacing", 0)
        font_size == Get(field, "font_size", g.size)
        is_bold == Get(field, "bold", g.bold)
        field_type == Get(field, "type", "text")
    IN  IF Drawable(field)
        THEN LET x == start[1]
                 pdf_y == FlipY(page_height, start[2])
                 font_name == resolve_font_name(g.family, is_bold)
                 c1 == setFillColorRGB(setFont(can, font_name, font_size), g.color)
             IN  IF field_type = "checkbox"
                 THEN drawString(setFont(c1, CheckboxFont(font_name), font_size), x, pdf_y, value)
                 ELSE IF Get(field, "multiline", FALSE)
                 THEN DrawMultiline(c1, field, start, value, font_name, font_size, pdf_y)
                 ELSE IF spacing # 0
                 THEN DrawChars(c1, x, pdf_y, spacing, value, 0)
                 ELSE drawString(c1, x, pdf_y, value)
        ELSE can

\* lines 54-107: the loop; an exception ends it
RECURSIVE RenderFields(_, _, _, _)
RenderFields(can, fields, page_height, g) ==
    IF fields = <<>> \/ can.raised # "" THEN can
    ELSE RenderFields(RenderField(can, Head(fields), page_height, g), Tail(fields),
                      page_height, g)

\* create_text_overlay: the one-page document of the packet, or the exception raised
create_text_overlay(fields, page_width, page_height, pdf_settings) ==
    LET g == ResolveGlobals(pdf_settings)
    IN  IF ~g.ok THEN [ok |-> FALSE, raised |-> "ValueError"]
        ELSE LET can == RenderFields(NewCanvas, fields, page_height, g)
             IN  IF can.raised # "" THEN [ok |-> FALSE, raised |-> can.raised]
                 ELSE [ok |-> TRUE,
                       page |-> [w |-> page_width, h |-> page_height, marks |-> can.ops]]
----------------------------------------------------------------------------
(* The file system, the coordinates file and the source documents *)

Callers == {"s1", "s2"}

MaxCalls == 2

P_json == <<"c", ".", "j", "s", "o", "n">>

P_slip == <<"s", ".", "p", "d", "f">>

P_kyc == <<"k", ".", "P", "D", "F">>

P_corrupt == <<"x", ".", "p", "d", "f">>

P_nopages == <<"z", ".", "p", "d", "f">>

P_out == <<"o", ".", "p", "d", "f">>

FormSlip == <<"S", "l", "i", "p">>

FormSlipLower == <<"s", "l", "i", "p">>

FormKyc == <<"K", "y", "c">>

FormLoan == <<"L">>

\* line 188: f"forms/{form_name}.pdf"
FormsDirPath(form_name) == <<"f", "o", "r", "m", "s", "/">> \o form_name \o <<".", "p", "d", "f">>

\* line 190: input_pdf.replace(".pdf", "_filled.pdf")
DefaultOutput(path) ==
    Replace(path, <<".", "p", "d", "f">>, <<"_", "f", "i", "l", "l", "e", "d", ".", "p", "d", "f">>)

\* the coordinates JSON: a list of forms, each with form_name, form_fields and
\* (optionally) pdf_path; a field is a dict with optional keys
CoordinatesData ==
    << [form_name |-> FormSlip, pdf_path |-> P_slip,
        form_fields |->
          << [field |-> "Account", start |-> <<500, 1000>>, spacing |-> 185, value |-> <<>>],
             [field |-> "Branch", start |-> <<1000, 500>>, value |-> <<"S", "B", "I">>],
             [field |-> "Amount", start |-> <<3000, 1500>>, font_size |-> 12, value |-> <<>>] >>],
       [form_name |-> FormKyc, pdf_path |-> P_kyc,
        form_fields |->
          << [field |-> "Amount", start |-> <<800, 800>>, type |-> "checkbox", value |-> <<>>] >>],
       [form_name |-> FormLoan,
        form_fields |->
          << [field |-> "Amount", start |-> <<500, 2000>>, end |-> <<600, 2600>>,
              multiline |-> TRUE, line_spacing |-> 140, value |-> <<>>] >>] >>

OrigMark(k) == [op |-> "orig", id |-> k]

Page(w, h, marks) == [w |-> w, h |-> h, marks |-> marks]

NoFile == [kind |-> "none"]

EmptyFile == [kind |-> "empty"]

CorruptFile == [kind |-> "corrupt"]

PdfFile(pages) == [kind |-> "pdf", pages |-> pages]

JsonFile(data) == [kind |-> "json", data |-> data]

InitialFiles ==
    (P_json :> JsonFile(CoordinatesData)) @@
    (P_slip :> PdfFile(<<Page(5950, 8420, <<OrigMark(1)>>), Page(5950, 8420, <<OrigMark(2)>>),
                         Page(8420, 5950, <<>>)>>)) @@
    (P_kyc :> PdfFile(<<Page(6120, 7920, <<OrigMark(3)>>)>>)) @@
    (FormsDirPath(FormLoan) :> PdfFile(<<Page(6120, 7920, <<>>), Page(6120, 7920, <<OrigMark(4)>>)>>)) @@
    (P_corrupt :> CorruptFile) @@
    (P_nopages :> PdfFile(<<>>))

Paths ==
    DOMAIN InitialFiles \cup {P_out}
    \cup {DefaultOutput(p) : p \in {P_slip, P_kyc, P_corrupt, P_nopages, FormsDirPath(FormLoan)}}

InitialDisk == [p \in Paths |-> IF p \in DOMAIN InitialFiles THEN InitialFiles[p] ELSE NoFile]

----------------------------------------------------------------------------
(* The calls that are made *)

ValueMaps ==
    { EmptyDict,
      [Amount |-> <<"5">>],
      [Amount |-> <<"7">>, Account |-> <<"1", "2">>],
      [Branch |-> <<>>],
      [Branch |-> <<"P", "N", "B">>, Amount |-> <<"a", " ", "b", " ", "c", " ", "d", " ", "e", " ", "f">>],
      [Other |-> <<"9">>] }

SettingsPool ==
    { EmptyDict,
      [font_family |-> "Courier", font_size |-> 8, bold |-> FALSE,
       color |-> <<"#", "f", "f", "0", "0", "8", "0">>],
      [color |-> <<"#", "g", "g", "g">>],
      [color |-> <<"#", "f", "f", "0", "0", "8">>] }

\* fill_pdf_from_chatbot(chatbot_values, json_path, form_name, input_pdf, output_pdf,
\* pdf_settings); an argument left at None is an absent key
ChatbotCalls ==
    { [fn |-> "fill_pdf_from_chatbot", chatbot_values |-> v, json_path |-> P_json,
       form_name |-> FormSlip] : v \in ValueMaps }
    \cup
    { [fn |-> "fill_pdf_from_chatbot", chatbot_values |-> v, json_path |-> P_json,
       form_name |-> n] : v \in {[Amount |-> <<"5">>], [Other |-> <<"9">>]},
                          n \in {FormSlipLower, FormKyc} }
    \cup
    { [fn |-> "fill_pdf_from_chatbot", chatbot_values |-> [Amount |-> <<"5">>],
       json_path |-> P_json, form_name |-> FormLoan] }
    \cup
    { [fn |-> "fill_pdf_from_chatbot", chatbot_values |-> [Amount |-> <<"5">>],
       json_path |-> P_json, form_name |-> FormSlip, input_pdf |-> P_slip,
       output_pdf |-> P_out, pdf_settings |-> s] : s \in SettingsPool }
    \cup
    { [fn |-> "fill_pdf_from_chatbot", chatbot_values |-> [Amount |-> <<"5">>],
       json_path |-> P_json, form_name |-> FormSlip, input_pdf |-> i,
       output_pdf |-> P_out] : i \in {P_corrupt, P_nopages} }

\* fill_pdf_form(input_pdf_path, output_pdf_path, json_path, form_name)
FormCalls ==
    { [fn |-> "fill_pdf_form", input_pdf |-> P_slip, output_pdf |-> P_out,
       json_path |-> P_json, form_name |-> n] : n \in {FormSlip, FormSlipLower} }
    \cup
    { [fn |-> "fill_pdf_form", input_pdf |-> P_kyc, output_pdf |-> P_out,
       json_path |-> P_json, form_name |-> FormSlip] }

Calls == ChatbotCalls \cup FormCalls

----------------------------------------------------------------------------
(* fill_pdf_from_chatbot (lines 159-224) and fill_pdf_form (lines 114-156) *)

\* faulty variant: the loaded object is cached and shared, so a call gets the object an
\* earlier call has already written its values into
load_field_coordinates_cached(json_path) ==
    LET loaded == {c \in Callers : forms[c] # <<>>}
    IN  IF loaded # {} THEN forms[CHOOSE c \in loaded : TRUE] ELSE disk[json_path].data

\* lines 9-14: json.load of the file, a fresh object on every call
load_field_coordinates(json_path) == disk[json_path].data

Lower(str) ==
    [i \in 1..Len(str) |-> IF str[i] = "S" THEN "s" ELSE IF str[i] = "K" THEN "k"
                           ELSE IF str[i] = "L" THEN "l" ELSE str[i]]

\* faulty variant: the names are compared without regard to case
NameMatches_IgnoreCase(form, form_name) ==
    Lower(Get(form, "form_name", <<>>)) = Lower(form_name)

\* lines 176-177 / 120-121: form.get("form_name") == form_name
NameMatches(form, form_name) == Get(form, "form_name", <<>>) = form_name

\* lines 174-180: the index of the first form that matches, 0 when none does
FindForm(fs, form_name) ==
    IF \E i \in 1..Len(fs) : NameMatches(fs[i], form_name)
    THEN CHOOSE i \in 1..Len(fs) :
             /\ NameMatches(fs[i], form_name)
             /\ \A j \in 1..(i - 1) : ~NameMatches(fs[j], form_name)
    ELSE 0

\* fields = form.get("form_fields"), None as the empty list (both are falsy at line 182)
FieldsOf(fs, idx) == IF idx = 0 THEN <<>> ELSE Get(fs[idx], "form_fields", <<>>)

\* faulty variant: field["value"] = chatbot_values.get(field_name, ""), so a field whose
\* name is no key loses its catalog value
InjectField_Default(field, chatbot_values) ==
    ("value" :> Get(chatbot_values, Get(field, "field", ""), <<>>)) @@ field

\* lines 195-196: one field of the loop
InjectField(field, chatbot_values) ==
    IF Get(field, "field", "") \in DOMAIN chatbot_values
    THEN ("value" :> chatbot_values[field.field]) @@ field
    ELSE field

\* lines 193-196
InjectValues(fields, chatbot_values) ==
    [i \in 1..Len(fields) |-> InjectField(fields[i], chatbot_values)]

\* faulty variant: the overlay's content is put under the page's
merge_page_Under(page, overlay_page) == [page EXCEPT !.marks = overlay_page.marks \o @]

\* page.merge_page(overlay_page): the overlay's content is appended to the page's
merge_page(page, overlay_page) == [page EXCEPT !.marks = @ \o overlay_page.marks]

\* faulty variant: writer.add_page(page) inside the if, so only the first page is written
MergedPages_FirstOnly(pages, overlay_page) == <<merge_page(pages[1], overlay_page)>>

\* faulty variant: the test i == 0 is lost, the overlay is merged into every page
MergedPages_EveryPage(pages, overlay_page) ==
    [i \in 1..Len(pages) |-> merge_page(pages[i], overlay_page)]

\* lines 214-217 / 146-149: the pages handed to the writer
MergedPages(pages, overlay_page) ==
    [i \in 1..Len(pages) |-> IF i = 1 THEN merge_page(pages[i], overlay_page) ELSE pages[i]]

NoResult == [kind |-> "pending"]

ReturnedNone == [kind |-> "None"]

ReturnedPath(p) == [kind |-> "path", path |-> p]

Raised(e) == [kind |-> "raised", exc |-> e]

Fields(c) == FieldsOf(forms[c], formIdx[c])

Finished(c) == pc[c] \in {"idle", "done", "raised"}

\* a call of fill_pdf_from_chatbot or fill_pdf_form with arguments a begins
Begin(c, a) ==
    /\ args' = [args EXCEPT ![c] = a]
    /\ calls' = calls + 1
    /\ prior' = [prior EXCEPT ![c] =
                    {args[d] : d \in {e \in Callers : /\ pc[e] = "done"
                                                       /\ result[e].kind = "path"}}]
    /\ pc' = [pc EXCEPT ![c] = "load"]
    /\ forms' = [forms EXCEPT ![c] = <<>>]
    /\ formIdx' = [formIdx EXCEPT ![c] = 0]
    /\ input_pdf' = [input_pdf EXCEPT ![c] = <<>>]
    /\ output_pdf' = [output_pdf EXCEPT ![c] = <<>>]
    /\ reader' = [reader EXCEPT ![c] = <<>>]
    /\ overlay' = [overlay EXCEPT ![c] = Page(0, 0, <<>>)]
    /\ writer' = [writer EXCEPT ![c] = <<>>]
    /\ result' = [result EXCEPT ![c] = NoResult]
    /\ UNCHANGED disk

Start(c) ==
    /\ Finished(c)
    /\ calls < MaxCalls
    /\ \E a \in Calls : Begin(c, a)
    /\ UNCHANGED <<renderVars, styleVars, appVars, cliVars>>

\* lines 171-190 (117-128): load, look the form up, return None when it has no fields,
\* otherwise settle the two paths
Load(c) ==
    /\ pc[c] = "load"
    /\ LET fs == load_field_coordinates(args[c].json_path)
           idx == FindForm(fs, args[c].form_name)
           inp == IF "input_pdf" \in DOMAIN args[c] THEN args[c].input_pdf
                  ELSE Get(fs[idx], "pdf_path", FormsDirPath(args[c].form_name))
           out == IF "output_pdf" \in DOMAIN args[c] THEN args[c].output_pdf
                  ELSE DefaultOutput(inp)
       IN  /\ forms' = [forms EXCEPT ![c] = fs]
           /\ formIdx' = [formIdx EXCEPT ![c] = idx]
           /\ IF FieldsOf(fs, idx) = <<>>
              THEN /\ pc' = [pc EXCEPT ![c] = "done"]
                   /\ result' = [result EXCEPT ![c] = ReturnedNone]
                   /\ UNCHANGED <<input_pdf, output_pdf>>
              ELSE /\ pc' = [pc EXCEPT ![c] =
                               IF args[c].fn = "fill_pdf_from_chatbot" THEN "inject" ELSE "read"]
                   /\ input_pdf' = [input_pdf EXCEPT ![c] = inp]
                   /\ output_pdf' = [output_pdf EXCEPT ![c] = out]
                   /\ UNCHANGED result
    /\ UNCHANGED <<disk, args, reader, overlay, writer, prior, calls, renderVars, styleVars, appVars, cliVars>>

\* lines 192-196: the values are written into the loaded object
Inject(c) ==
    /\ pc[c] = "inject"
    /\ forms' = [forms EXCEPT ![c][formIdx[c]].form_fields =
                    InjectValues(@, args[c].chatbot_values)]
    /\ pc' = [pc EXCEPT ![c] = "read"]
    /\ UNCHANGED <<disk, args, formIdx, input_pdf, output_pdf, reader, overlay, writer,
                   result, prior, calls, renderVars, styleVars, appVars, cliVars>>

\* faulty variant: the output file is opened for writing before the source is read
Read_OpenFirst(c) ==
    /\ pc[c] = "read"
    /\ disk' = [disk EXCEPT ![output_pdf[c]] = EmptyFile]
    /\ LET f == disk[input_pdf[c]]
       IN  IF f.kind # "pdf" \/ f.pages = <<>>
           THEN /\ pc' = [pc EXCEPT ![c] = "raised"]
                /\ result' = [result EXCEPT ![c] = Raised("PdfReadError")]
                /\ UNCHANGED reader
           ELSE /\ pc' = [pc EXCEPT ![c] = "render"]
                /\ reader' = [reader EXCEPT ![c] = f.pages]
                /\ UNCHANGED result
    /\ UNCHANGED <<args, forms, formIdx, input_pdf, output_pdf, overlay, writer,
                   prior, calls, renderVars, styleVars, appVars, cliVars>>

\* lines 198-204 (130-136): PdfReader(input_pdf), reader.pages[0]
Read(c) ==
    /\ pc[c] = "read"
    /\ LET f == disk[input_pdf[c]]
       IN  IF f.kind # "pdf"
           THEN /\ pc' = [pc EXCEPT ![c] = "raised"]
                /\ result' = [result EXCEPT ![c] =
                                 Raised(IF f.kind = "none" THEN "FileNotFoundError"
                                        ELSE "PdfReadError")]
                /\ UNCHANGED reader
           ELSE IF f.pages = <<>>
           THEN /\ pc' = [pc EXCEPT ![c] = "raised"]
                /\ result' = [result EXCEPT ![c] = Raised("IndexError")]
                /\ UNCHANGED reader
           ELSE /\ pc' = [pc EXCEPT ![c] = "render"]
                /\ reader' = [reader EXCEPT ![c] = f.pages]
                /\ UNCHANGED result
    /\ UNCHANGED <<disk, args, forms, formIdx, input_pdf, output_pdf, overlay, writer,
                   prior, calls, renderVars, styleVars, appVars, cliVars>>

\* lines 208-217 (140-149): the overlay, then the merge into the writer
Render(c) ==
    /\ pc[c] = "render"
    /\ LET first_page == reader[c][1]
           ov == create_text_overlay(Fields(c), first_page.w, first_page.h,
                                     Get(args[c], "pdf_settings", EmptyDict))
       IN  IF ov.ok
           THEN /\ overlay' = [overlay EXCEPT ![c] = ov.page]
                /\ writer' = [writer EXCEPT ![c] = MergedPages(reader[c], ov.page)]
                /\ pc' = [pc EXCEPT ![c] = "open"]
                /\ UNCHANGED result
           ELSE /\ pc' = [pc EXCEPT ![c] = "raised"]
                /\ result' = [result EXCEPT ![c] = Raised(ov.raised)]
                /\ UNCHANGED <<overlay, writer>>
    /\ UNCHANGED <<disk, args, forms, formIdx, input_pdf, output_pdf, reader, prior, calls,
                   renderVars, styleVars, appVars, cliVars>>

\* line 220 (152): open(output_pdf, 'wb') creates the file or truncates it
Open(c) ==
    /\ pc[c] = "open"
    /\ disk' = [disk EXCEPT ![output_pdf[c]] = EmptyFile]
    /\ pc' = [pc EXCEPT ![c] = "write"]
    /\ UNCHANGED <<args, forms, formIdx, input_pdf, output_pdf, reader, overlay, writer,
                   result, prior, calls, renderVars, styleVars, appVars, cliVars>>

\* line 221 (153): writer.write(output_file). When another writer has written to the
\* same file since this one opened it, the bytes of the two overlap: the file holds
\* this document or is unreadable.
Write(c) ==
    /\ pc[c] = "write"
    /\ \E content \in IF disk[output_pdf[c]] = EmptyFile
                      THEN {PdfFile(writer[c])}
                      ELSE {PdfFile(writer[c]), CorruptFile} :
           disk' = [disk EXCEPT ![output_pdf[c]] = content]
    /\ pc' = [pc EXCEPT ![c] = "return"]
    /\ UNCHANGED <<args, forms, formIdx, input_pdf, output_pdf, reader, overlay, writer,
                   result, prior, calls, renderVars, styleVars, appVars, cliVars>>

\* line 224 (156): return output_pdf
Return(c) ==
    /\ pc[c] = "return"
    /\ result' = [result EXCEPT ![c] = ReturnedPath(output_pdf[c])]
    /\ pc' = [pc EXCEPT ![c] = "done"]
    /\ UNCHANGED <<disk, args, forms, formIdx, input_pdf, output_pdf, reader, overlay,
                   writer, prior, calls, renderVars, styleVars, appVars, cliVars>>

SessionIds == {"u1", "u2"}

NoSession == [phase |-> "none"]

NoRequest == [kind |-> "idle"]

NoResponse == [status |-> 0]

NoCall == [fn |-> "none", form_name |-> <<>>, chatbot_values |-> EmptyDict]

InitFill ==
    /\ disk = InitialDisk
    /\ pc = [c \in Callers |-> "idle"]
    /\ args = [c \in Callers |-> NoCall]
    /\ forms = [c \in Callers |-> <<>>]
    /\ formIdx = [c \in Callers |-> 0]
    /\ input_pdf = [c \in Callers |-> <<>>]
    /\ output_pdf = [c \in Callers |-> <<>>]
    /\ reader = [c \in Callers |-> <<>>]
    /\ overlay = [c \in Callers |-> Page(0, 0, <<>>)]
    /\ writer = [c \in Callers |-> <<>>]
    /\ result = [c \in Callers |-> NoResult]
    /\ prior = [c \in Callers |-> {}]
    /\ calls = 0

InitRenderIdle ==
    /\ rFields = <<>>
    /\ rHeight = 0
    /\ rSettings = EmptyDict
    /\ rGlobal = [ok |-> FALSE]
    /\ rIdx = 0
    /\ rCan = NewCanvas
    /\ rPc = "idle"

InitStyleIdle ==
    /\ sFamily = "Helvetica"
    /\ sBold = TRUE
    /\ sHex = <<>>
    /\ sFont = ""
    /\ sRgb = [ok |-> FALSE]
    /\ sPc = "idle"

InitApp ==
    /\ sessions = [id \in SessionIds |-> NoSession]
    /\ req = [c \in Callers |-> NoRequest]
    /\ resp = [c \in Callers |-> NoResponse]
    /\ requests = 0

\* the process is not chatbot.py run as the main program
NoAssistant == [form_fields |-> <<>>, field_values |-> EmptyDict, conversation_history |-> 0]

InitCliIdle ==
    /\ cli = [pc |-> "off", form_name |-> <<>>, coordinates_file |-> <<>>, turns |-> 0,
              missing |-> <<>>]
    /\ assistant = NoAssistant

Init == InitFill /\ InitRenderIdle /\ InitStyleIdle /\ InitApp /\ InitCliIdle

Next ==
    \E c \in Callers :
        \/ Start(c)
        \/ Load(c)
        \/ Inject(c)
        \/ Read(c)
        \/ Render(c)
        \/ Open(c)
        \/ Write(c)
        \/ Return(c)

Spec == Init /\ [][Next]_vars
----------------------------------------------------------------------------
(* create_text_overlay on its own, one loop iteration per step *)

MaxFields == 2

PageHeights == {8000, 7920}

FieldPool ==
    { [field |-> "Name", start |-> <<1000, 500>>, value |-> <<"1", "2", "3", "4", "5">>],
      [field |-> "Empty", start |-> <<1000, 500>>, value |-> <<>>],
      [field |-> "NoStart", value |-> <<"a", "b">>, spacing |-> 100],
      [field |-> "NoValue", start |-> <<200, 300>>, multiline |-> TRUE, type |-> "checkbox"],
      [field |-> "Account", start |-> <<500, 1000>>, spacing |-> 185,
       value |-> <<"2", "5", "4", "4", "6", "3", "1">>],
      [field |-> "Code", start |-> <<700, 100>>, spacing |-> 200, font_size |-> 8,
       bold |-> FALSE, value |-> <<"a", "b">>],
      [field |-> "Zero", start |-> <<0, 0>>, spacing |-> 0, value |-> <<"a", "b">>],
      [field |-> "Address", start |-> <<500, 2000>>, end |-> <<600, 2600>>, multiline |-> TRUE,
       line_spacing |-> 140,
       value |-> <<"a", " ", "b", " ", "c", " ", "d", " ", "e", " ", "f", " ", "g", " ", "h">>],
      [field |-> "Flat", start |-> <<500, 2000>>, end |-> <<800, 2000>>, multiline |-> TRUE,
       line_spacing |-> 140, value |-> <<"a", "a", " ", "b", "b", " ", "c", "c">>],
      [field |-> "NoEnd", start |-> <<500, 2000>>, multiline |-> TRUE, spacing |-> 50,
       value |-> <<"a", " ", "b", "\n", "c">>],
      [field |-> "Purpose", start |-> <<500, 2000>>, end |-> <<400, 1870>>, multiline |-> TRUE,
       value |-> <<"a", " ", "b", " ", "c">>],
      [field |-> "Short", start |-> <<500, 2000>>, end |-> <<560, 2050>>, multiline |-> TRUE,
       line_spacing |-> 140, bold |-> FALSE, value |-> <<"a", " ", "b">>],
      [field |-> "Bad", start |-> <<500, 2000>>, end |-> <<560, 2050>>, multiline |-> TRUE,
       line_spacing |-> 0, value |-> <<"a", " ", "b">>],
      [field |-> "Tick", start |-> <<800, 800>>, type |-> "checkbox", bold |-> FALSE,
       value |-> <<"X">>],
      [field |-> "Both", start |-> <<800, 900>>, end |-> <<900, 1000>>, type |-> "checkbox",
       multiline |-> TRUE, spacing |-> 100, value |-> <<"Y", "e", "s">>] }

RECURSIVE FieldLists(_)
FieldLists(n) ==
    IF n = 0 THEN {<<>>}
    ELSE FieldLists(n - 1)
         \cup {Append(l, f) : l \in {m \in FieldLists(n - 1) : Len(m) = n - 1}, f \in FieldPool}

InitRender ==
    /\ rFields \in FieldLists(MaxFields)
    /\ rHeight \in PageHeights
    /\ rSettings \in SettingsPool
    /\ rGlobal = [ok |-> FALSE]
    /\ rIdx = 0
    /\ rCan = NewCanvas
    /\ rPc = "begin"

\* lines 43-52: the global settings are resolved and the canvas is created
RBegin ==
    /\ rPc = "begin"
    /\ LET g == ResolveGlobals(rSettings)
       IN  /\ rGlobal' = g
           /\ rPc' = IF g.ok THEN "loop" ELSE "raised"
    /\ UNCHANGED <<rFields, rHeight, rSettings, rIdx, rCan, fillVars, styleVars, appVars, cliVars>>

\* lines 54-107: one iteration of the loop
RField ==
    /\ rPc = "loop"
    /\ rIdx < Len(rFields)
    /\ rCan' = RenderField(rCan, rFields[rIdx + 1], rHeight, rGlobal)
    /\ rIdx' = rIdx + 1
    /\ rPc' = IF rCan'.raised # "" THEN "raised" ELSE "loop"
    /\ UNCHANGED <<rFields, rHeight, rSettings, rGlobal, fillVars, styleVars, appVars, cliVars>>

\* lines 109-111: can.save(), the packet is returned
RSave ==
    /\ rPc = "loop"
    /\ rIdx = Len(rFields)
    /\ rPc' = "saved"
    /\ UNCHANGED <<rFields, rHeight, rSettings, rGlobal, rIdx, rCan, fillVars, styleVars, appVars, cliVars>>

NextRender == RBegin \/ RField \/ RSave

InitRenderSpec == InitFill /\ InitRender /\ InitStyleIdle /\ InitApp /\ InitCliIdle

SpecRender == InitRenderSpec /\ [][NextRender]_vars
----------------------------------------------------------------------------
(* resolve_font_name and hex_to_rgb on their own *)

Families == {"Helvetica", "Courier", "Times-Roman", "Arial", "", "helvetica", "Times-Bold"}

HexColors ==
    { <<"#", "f", "f", "0", "0", "8", "0">>,
      <<"#", "F", "F", "0", "0", "8", "0">>,
      <<"#", "0", "0", "0", "0", "0", "0">>,
      <<"#", "g", "g", "g">>,
      <<"#", "z", "z", "0", "0", "0", "0">>,
      <<"#", "f", "f", "0", "0">>,
      <<"#", "f", "f", "0", "0", "8">>,
      <<"#", "f", "f", "0", "0", "8", "0", "f", "f">>,
      <<"f", "f", "0", "0", "8", "0">>,
      <<"#", "#", "f", "f", "0", "0", "8", "0">>,
      <<"#", "+", "1", "-", "1", " ", "1">>,
      <<>> }

InitStyle ==
    /\ sFamily \in Families
    /\ sBold \in BOOLEAN
    /\ sHex \in HexColors
    /\ sFont = ""
    /\ sRgb = [ok |-> FALSE]
    /\ sPc = "begin"

\* lines 30-38
SFont ==
    /\ sPc = "begin"
    /\ sFont' = resolve_font_name(sFamily, sBold)
    /\ sPc' = "font"
    /\ UNCHANGED <<sFamily, sBold, sHex, sRgb, fillVars, renderVars, appVars, cliVars>>

\* lines 24-27
SColor ==
    /\ sPc = "font"
    /\ sRgb' = hex_to_rgb(sHex)
    /\ sPc' = "done"
    /\ UNCHANGED <<sFamily, sBold, sHex, sFont, fillVars, renderVars, appVars, cliVars>>

NextStyle == SFont \/ SColor

InitStyleSpec == InitFill /\ InitRenderIdle /\ InitStyle /\ InitApp /\ InitCliIdle

SpecStyle == InitStyleSpec /\ [][NextStyle]_vars
----------------------------------------------------------------------------
(* app.py: the sessions and the request handlers. A handler that calls the language  *)
(* model is two steps, the part before the call and the part after the reply; other  *)
(* requests are served in between.                                                   *)

MaxRequests == 4

FormGhost == <<"G">>

P_default == <<"f", ".", "j", "s", "o", "n">>

\* available_forms.json as load_available_forms returns it: banks, each with its forms
AvailableForms ==
    << [bank |-> "SBI",
        forms |-> << [form_name |-> FormSlip, coordinates_file |-> P_json, pdf_path |-> P_slip],
                     [form_name |-> FormKyc, coordinates_file |-> P_json, pdf_path |-> P_kyc] >>],
       [bank |-> "PNB",
        forms |-> << [form_name |-> FormLoan, coordinates_file |-> P_json],
                     [form_name |-> FormGhost, coordinates_file |-> P_json] >>] >>

\* chatbot.py lines 277-280: the forms in the order the two loops visit them
RECURSIVE BankForms(_)
BankForms(available_forms) ==
    IF available_forms = <<>> THEN <<>>
    ELSE LET e == Head(available_forms)
         IN  [i \in 1..Len(Get(e, "forms", <<>>)) |-> [bank |-> e.bank, form |-> e.forms[i]]]
             \o BankForms(Tail(available_forms))

\* chatbot.py lines 275-286: {"bank": ..., **form} of the first match, None (the empty
\* dict here, falsy too) when there is none; bank_name None is ""
get_form_details(available_forms, form_name, bank_name) ==
    LET flat == BankForms(available_forms)
        hits == {i \in 1..Len(flat) : /\ (bank_name = "" \/ flat[i].bank = bank_name)
                                      /\ Get(flat[i].form, "form_name", <<>>) = form_name}
    IN  IF hits = {} THEN EmptyDict
        ELSE LET i == CHOOSE j \in hits : \A k \in hits : j <= k
             IN  flat[i].form @@ ("bank" :> flat[i].bank)

\* chatbot.py lines 289-295
load_form_fields(coordinates_file, form_name) ==
    LET fs == disk[coordinates_file].data
    IN  FieldsOf(fs, FindForm(fs, form_name))

\* app.py lines 56-64
NewSession ==
    [phase |-> "detection", conversation_history |-> 0, available_forms |-> AvailableForms,
     form_name |-> <<>>, bank_name |-> "", field_values |-> EmptyDict, form_fields |-> <<>>]

\* app.py lines 97-102 and 206-211: the session moves to the filling phase
EnterFilling(session, form_name, bank_name, form_fields, coordinates_file) ==
    [phase |-> "filling", conversation_history |-> 0,
     available_forms |-> session.available_forms,
     form_name |-> form_name, bank_name |-> bank_name,
     field_values |-> session.field_values, form_fields |-> form_fields,
     coordinates_file |-> coordinates_file]

\* app.py lines 105-107: the values the form's fields come with
RECURSIVE Prefill(_, _)
Prefill(field_values, form_fields) ==
    IF form_fields = <<>> THEN field_values
    ELSE LET f == Head(form_fields)
         IN  Prefill(IF Get(f, "value", <<>>) # <<>>
                     THEN (f.field :> f.value) @@ field_values
                     ELSE field_values,
                     Tail(form_fields))

\* faulty variant: the test `if value` is lost, an empty value is stored as any other
UpdateValues_StoreEmpty(field_values, extracted_fields) ==
    [k \in DOMAIN field_values \cup DOMAIN extracted_fields |->
        IF k \in DOMAIN extracted_fields THEN extracted_fields[k] ELSE field_values[k]]

\* app.py lines 261-263: for field, value in extracted_fields.items(): if value: ...
UpdateValues(field_values, extracted_fields) ==
    LET set == {k \in DOMAIN extracted_fields : extracted_fields[k] # <<>>}
    IN  [k \in DOMAIN field_values \cup set |->
            IF k \in set THEN extracted_fields[k] ELSE field_values[k]]

Exists(sid) == sessions[sid] # NoSession

\* a worker thread is free to take a request
Free(c) == req[c] = NoRequest /\ Finished(c) /\ requests < MaxRequests

\* jsonify(...), status: what is kept of a response is its status, error and phase
Respond(c, r) ==
    resp' = [resp EXCEPT ![c] = [k \in DOMAIN r \cap {"status", "error", "phase"} |-> r[k]]]

\* the form and bank names a client sends to select_form
SelectInputs ==
    { <<FormSlip, "">>, <<FormKyc, "SBI">>, <<FormLoan, "">>, <<FormLoan, "SBI">>,
      <<FormGhost, "">> }

\* the JSON objects the language model answers a detection turn with
DetectResults ==
    { [message |-> "m"],
      [message |-> "m", form_name |-> FormSlip, confidence |-> "high", bank |-> "SBI"],
      [message |-> "m", form_name |-> FormKyc, confidence |-> "medium"],
      [message |-> "m", form_name |-> FormSlip, confidence |-> "low"],
      [message |-> "m", form_name |-> FormGhost, confidence |-> "high"],
      [message |-> "m", form_name |-> FormLoan, confidence |-> "high", bank |-> "SBI"] }

\* the extracted_fields the language model answers a filling turn with
ExtractedPool ==
    { EmptyDict, [Amount |-> <<"5">>], [Amount |-> <<>>],
      [Amount |-> <<"7">>, Account |-> <<"1", "2">>], [Other |-> <<"9">>] }

\* app.py line 54: the session id is the time of the request, so ids come in order
NextSessionId ==
    IF ~Exists("u1") THEN "u1" ELSE IF ~Exists("u2") THEN "u2" ELSE "none"

\* app.py lines 51-67
start_session(c) ==
    /\ Free(c)
    /\ \E sid \in SessionIds :
           /\ sid = NextSessionId
           /\ sessions' = [sessions EXCEPT ![sid] = NewSession]
           /\ Respond(c, [status |-> 200, session_id |-> sid])
    /\ requests' = requests + 1
    /\ UNCHANGED <<req, fillVars, renderVars, styleVars, cliVars>>

\* app.py lines 70-110: select_form up to the call of the language model
select_form(c) ==
    /\ Free(c)
    /\ requests' = requests + 1
    /\ \E sid \in SessionIds, in \in SelectInputs :
           LET form_name == in[1]
               bank_name == in[2]
               form_details == get_form_details(sessions[sid].available_forms, form_name,
                                                bank_name)
               coordinates_file == Get(form_details, "coordinates_file", P_default)
               form_fields == load_form_fields(coordinates_file, form_name)
           IN  IF ~Exists(sid)
               THEN /\ Respond(c, [status |-> 400, error |-> "Invalid session"])
                    /\ UNCHANGED <<sessions, req>>
               ELSE IF form_details = EmptyDict
               THEN /\ Respond(c, [status |-> 404, error |-> "Form not found"])
                    /\ UNCHANGED <<sessions, req>>
               ELSE IF form_fields = <<>>
               THEN /\ Respond(c, [status |-> 500, error |-> "Could not load form fields"])
                    /\ UNCHANGED <<sessions, req>>
               ELSE /\ sessions' =
                          [sessions EXCEPT ![sid] =
                              [EnterFilling(@, form_name, bank_name, form_fields,
                                            coordinates_file)
                               EXCEPT !.field_values = Prefill(@, form_fields)]]
                    /\ req' = [req EXCEPT ![c] = [kind |-> "select_form", sid |-> sid,
                                                  form_name |-> form_name,
                                                  bank_name |-> bank_name]]
                    /\ UNCHANGED resp
    /\ UNCHANGED <<fillVars, renderVars, styleVars, cliVars>>

\* app.py lines 112-138: the model's reply to select_form (or the call raises)
select_form_reply(c) ==
    /\ req[c].kind = "select_form"
    /\ \/ /\ sessions' = [sessions EXCEPT ![req[c].sid].conversation_history = @ + 2]
          /\ Respond(c, [status |-> 200, phase |-> "filling", form_name |-> req[c].form_name,
                         bank_name |-> req[c].bank_name])
       \/ /\ Respond(c, [status |-> 500, error |-> "exception"])
          /\ UNCHANGED sessions
    /\ req' = [req EXCEPT ![c] = NoRequest]
    /\ UNCHANGED <<requests, fillVars, renderVars, styleVars, cliVars>>

\* app.py lines 141-159, then 162-180 or 222-249: chat up to the call of the language
\* model; the handler is chosen by the phase the session is in now
chat(c) ==
    /\ Free(c)
    /\ requests' = requests + 1
    /\ \E sid \in SessionIds, user_message \in {"", "hi"} :
           IF ~Exists(sid)
           THEN /\ Respond(c, [status |-> 400, error |-> "Invalid session"])
                /\ UNCHANGED <<sessions, req>>
           ELSE IF user_message = ""
           THEN /\ Respond(c, [status |-> 400, error |-> "Empty message"])
                /\ UNCHANGED <<sessions, req>>
           ELSE /\ sessions' = [sessions EXCEPT ![sid].conversation_history = @ + 1]
                /\ req' = [req EXCEPT ![c] =
                              [kind |-> IF sessions[sid].phase = "detection"
                                        THEN "handle_detection_chat"
                                        ELSE "handle_filling_chat",
                               sid |-> sid]]
                /\ UNCHANGED resp
    /\ UNCHANGED <<fillVars, renderVars, styleVars, cliVars>>

\* faulty variant: the test of form_fields is lost, a form without fields is entered
Detected_NoFieldsCheck(session, llm_result) ==
    LET form_name == Get(llm_result, "form_name", <<>>)
        bank_name == Get(llm_result, "bank", "")
        form_details == get_form_details(session.available_forms, form_name, bank_name)
        coordinates_file == Get(form_details, "coordinates_file", P_default)
    IN  IF /\ form_name # <<>>
           /\ Get(llm_result, "confidence", "") \in {"high", "medium"}
           /\ form_details # EmptyDict
        THEN EnterFilling(session, form_name, bank_name,
                          load_form_fields(coordinates_file, form_name), coordinates_file)
        ELSE session

\* app.py lines 196-211: the session after a detection reply
Detected(session, llm_result) ==
    LET form_name == Get(llm_result, "form_name", <<>>)
        bank_name == Get(llm_result, "bank", "")
        form_details == get_form_details(session.available_forms, form_name, bank_name)
        coordinates_file == Get(form_details, "coordinates_file", P_default)
    IN  IF /\ form_name # <<>>
           /\ Get(llm_result, "confidence", "") \in {"high", "medium"}
           /\ form_details # EmptyDict
           /\ load_form_fields(coordinates_file, form_name) # <<>>
        THEN EnterFilling(session, form_name, bank_name,
                          load_form_fields(coordinates_file, form_name), coordinates_file)
        ELSE session

\* app.py lines 182-219: the model's reply to a detection turn (or the call raises)
handle_detection_chat_reply(c) ==
    /\ req[c].kind = "handle_detection_chat"
    /\ \/ \E llm_result \in DetectResults :
              LET sid == req[c].sid
                  appended == [sessions[sid] EXCEPT !.conversation_history = @ + 1]
                  after == Detected(appended, llm_result)
              IN  /\ sessions' = [sessions EXCEPT ![sid] = after]
                  /\ Respond(c, IF after = appended
                                THEN [status |-> 200, phase |-> "detection"]
                                ELSE [status |-> 200, phase |-> "filling",
                                      form_name |-> after.form_name,
                                      bank_name |-> after.bank_name])
       \/ /\ Respond(c, [status |-> 500, error |-> "exception"])
          /\ UNCHANGED sessions
    /\ req' = [req EXCEPT ![c] = NoRequest]
    /\ UNCHANGED <<requests, fillVars, renderVars, styleVars, cliVars>>

\* app.py lines 251-273: the model's reply to a filling turn (or the call raises)
handle_filling_chat_reply(c) ==
    /\ req[c].kind = "handle_filling_chat"
    /\ \/ \E extracted_fields \in ExtractedPool :
              LET sid == req[c].sid
              IN  /\ sessions' = [sessions EXCEPT
                                     ![sid].conversation_history = @ + 1,
                                     ![sid].field_values = UpdateValues(@, extracted_fields)]
                  /\ Respond(c, [status |-> 200, phase |-> "filling",
                                 form_name |-> sessions[sid].form_name,
                                 field_values |-> sessions'[sid].field_values])
       \/ /\ Respond(c, [status |-> 500, error |-> "exception"])
          /\ UNCHANGED sessions
    /\ req' = [req EXCEPT ![c] = NoRequest]
    /\ UNCHANGED <<requests, fillVars, renderVars, styleVars, cliVars>>

\* app.py lines 276-296: generate_pdf up to the call of fill_pdf_from_chatbot
generate_pdf(c) ==
    /\ Free(c)
    /\ requests' = requests + 1
    /\ \E sid \in SessionIds :
           IF ~Exists(sid)
           THEN /\ Respond(c, [status |-> 400, error |-> "Invalid session"])
                /\ UNCHANGED <<req, fillVars>>
           ELSE IF sessions[sid].phase # "filling"
           THEN /\ Respond(c, [status |-> 400, error |-> "Form not selected yet"])
                /\ UNCHANGED <<req, fillVars>>
           ELSE /\ Begin(c, [fn |-> "fill_pdf_from_chatbot",
                             chatbot_values |-> sessions[sid].field_values,
                             json_path |-> Get(sessions[sid], "coordinates_file", P_default),
                             form_name |-> sessions[sid].form_name])
                /\ req' = [req EXCEPT ![c] = [kind |-> "generate_pdf", sid |-> sid]]
                /\ UNCHANGED resp
    /\ UNCHANGED <<sessions, renderVars, styleVars, cliVars>>

\* app.py lines 298-305: fill_pdf_from_chatbot has returned (or raised)
generate_pdf_reply(c) ==
    /\ req[c].kind = "generate_pdf"
    /\ pc[c] \in {"done", "raised"}
    /\ Respond(c, IF result[c].kind = "path"
                  THEN [status |-> 200, output_path |-> result[c].path,
                        field_values |-> sessions[req[c].sid].field_values]
                  ELSE IF result[c].kind = "None"
                  THEN [status |-> 500, error |-> "Failed to generate PDF"]
                  ELSE [status |-> 500, error |-> "exception"])
    /\ req' = [req EXCEPT ![c] = NoRequest]
    /\ UNCHANGED <<sessions, requests, fillVars, renderVars, styleVars, cliVars>>

NextApp ==
    \E c \in Callers :
        \/ start_session(c)
        \/ select_form(c)
        \/ select_form_reply(c)
        \/ chat(c)
        \/ handle_detection_chat_reply(c)
        \/ handle_filling_chat_reply(c)
        \/ generate_pdf(c)
        \/ generate_pdf_reply(c)
        \/ Load(c)
        \/ Inject(c)
        \/ Read(c)
        \/ Render(c)
        \/ Open(c)
        \/ Write(c)
        \/ Return(c)

SpecApp == Init /\ [][NextApp]_vars
----------------------------------------------------------------------------
(* chatbot.py run as the main program: the FormAssistant and the loop that drives it. *)
(* A process runs app.py or chatbot.py, so the sessions dict and a FormAssistant      *)
(* never live together. FormAssistant.chat is two steps, as the handlers of app.py.   *)

MaxTurns == 3

\* the locals of the main program where it has none yet
Locals(at) ==
    [pc |-> at, form_name |-> <<>>, coordinates_file |-> <<>>, turns |-> 0, missing |-> <<>>]

\* chatbot.py lines 66-78: FormAssistant(form_fields); the pre-fill is the loop of
\* app.py lines 105-107
FormAssistant(form_fields) ==
    [form_fields |-> form_fields, field_values |-> Prefill(EmptyDict, form_fields),
     conversation_history |-> 0]

\* chatbot.py lines 80-83 (app.py lines 228-229): the names f with not field_values.get(f)
get_unfilled_fields(form_fields, field_values) ==
    LET all_fields == [i \in 1..Len(form_fields) |-> Get(form_fields[i], "field", "")]
        Needed(f) == Get(field_values, f, <<>>) = <<>>
    IN  SelectSeq(all_fields, Needed)

\* chatbot.py lines 299-374: the detection loop ends with a form the finder is
\* confident of (or the user quits), the form is looked up and the assistant is built
main_select ==
    /\ cli.pc = "start"
    /\ \/ \E llm_result \in DetectResults :
              LET form_name == Get(llm_result, "form_name", <<>>)
                  bank_name == Get(llm_result, "bank", "")
                  form_details == get_form_details(AvailableForms, form_name, bank_name)
                  coordinates_file == Get(form_details, "coordinates_file", P_default)
              IN  /\ form_name # <<>>
                  /\ Get(llm_result, "confidence", "") \in {"high", "medium"}
                  /\ IF form_details = EmptyDict
                        \/ load_form_fields(coordinates_file, form_name) = <<>>
                     THEN /\ cli' = Locals("exit")
                          /\ UNCHANGED assistant
                     ELSE /\ assistant' =
                                FormAssistant(load_form_fields(coordinates_file, form_name))
                          /\ cli' = [Locals("initial") EXCEPT
                                        !.form_name = form_name,
                                        !.coordinates_file = coordinates_file]
       \/ /\ cli' = Locals("exit")
          /\ UNCHANGED assistant
    /\ UNCHANGED <<fillVars, renderVars, styleVars, appVars>>

\* chatbot.py lines 85-99: FormAssistant.chat up to the call of the language model,
\* called at line 377 (the opening turn) and at line 390 (a turn of the loop)
FormAssistant_chat ==
    /\ cli.pc \in {"initial", "input"}
    /\ cli.turns < MaxTurns
    /\ assistant' = [assistant EXCEPT !.conversation_history = @ + 1]
    /\ cli' = [cli EXCEPT !.pc = IF cli.pc = "initial" THEN "opening" ELSE "calling",
                          !.turns = @ + 1]
    /\ UNCHANGED <<fillVars, renderVars, styleVars, appVars>>

\* chatbot.py lines 101-131, then 378 or 391-405: the model's reply is parsed and the
\* values are updated, or the reply is no JSON, or the call raises; a reply without a
\* message ends the program at line 378 or 391, after the update; a turn of the loop
\* that comes back ready_to_generate calls fill_pdf_from_chatbot
FormAssistant_chat_reply ==
    /\ cli.pc \in {"opening", "calling"}
    /\ \/ \E extracted_fields \in ExtractedPool, ready_to_generate \in BOOLEAN :
              LET values == UpdateValues(assistant.field_values, extracted_fields)
                  missing == get_unfilled_fields(assistant.form_fields, values)
              IN  /\ assistant' = [assistant EXCEPT !.conversation_history = @ + 1,
                                                    !.field_values = values]
                  /\ IF cli.pc = "calling" /\ ready_to_generate
                     THEN /\ cli' = [cli EXCEPT !.pc = "generate", !.missing = missing]
                          /\ Begin("s1", [fn |-> "fill_pdf_from_chatbot",
                                          chatbot_values |-> values,
                                          json_path |-> cli.coordinates_file,
                                          form_name |-> cli.form_name])
                     ELSE /\ cli' = [cli EXCEPT !.pc = "input", !.missing = missing]
                          /\ UNCHANGED fillVars
       \/ /\ assistant' = [assistant EXCEPT !.conversation_history = @ + 1]
          /\ cli' = [cli EXCEPT !.pc = "input",
                                !.missing = get_unfilled_fields(assistant.form_fields,
                                                                assistant.field_values)]
          /\ UNCHANGED fillVars
       \/ \E extracted_fields \in ExtractedPool :
              /\ assistant' = [assistant EXCEPT
                                  !.conversation_history = @ + 1,
                                  !.field_values = UpdateValues(@, extracted_fields)]
              /\ cli' = [cli EXCEPT !.pc = "exit"]
              /\ UNCHANGED fillVars
       \/ /\ cli' = [cli EXCEPT !.pc = "exit"]
          /\ UNCHANGED <<assistant, fillVars>>
    /\ UNCHANGED <<renderVars, styleVars, appVars>>

\* chatbot.py lines 382-386: the user quits
main_quit ==
    /\ cli.pc = "input"
    /\ cli' = [cli EXCEPT !.pc = "exit"]
    /\ UNCHANGED <<assistant, fillVars, renderVars, styleVars, appVars>>

\* chatbot.py lines 407-409: fill_pdf_from_chatbot has returned (or raised)
main_generated ==
    /\ cli.pc = "generate"
    /\ pc["s1"] \in {"done", "raised"}
    /\ cli' = [cli EXCEPT !.pc = "exit"]
    /\ UNCHANGED <<assistant, fillVars, renderVars, styleVars, appVars>>

NextCli ==
    \/ main_select
    \/ FormAssistant_chat
    \/ FormAssistant_chat_reply
    \/ main_quit
    \/ main_generated

\* the process is app.py or it is chatbot.py
InitCli ==
    /\ cli \in {Locals("off"), Locals("start")}
    /\ assistant = NoAssistant

InitChat == InitFill /\ InitRenderIdle /\ InitStyleIdle /\ InitApp /\ InitCli

NextChat ==
    \/ cli.pc = "off" /\ NextApp
    \/ NextCli
    \/ cli.pc = "generate" /\ \E c \in Callers :
           Load(c) \/ Inject(c) \/ Read(c) \/ Render(c) \/ Open(c) \/ Write(c) \/ Return(c)

SpecChat == InitChat /\ [][NextChat]_vars
----------------------------------------------------------------------------
(* Properties of the fill engine (specification Spec) *)

ChatbotCall(c) == args[c].fn = "fill_pdf_from_chatbot"

\* the fill of caller c has built the document it writes
Built(c) == pc[c] \in {"open", "write", "return"} \/ (pc[c] = "done" /\ result[c].kind = "path")

\* the values have been injected into the fields of caller c
Injected(c) == ChatbotCall(c) /\ (pc[c] \in {"read", "render"} \/ Built(c))

\* the form's fields as the coordinates file holds them
CatalogFields(c) ==
    FieldsOf(InitialDisk[args[c].json_path].data,
             FindForm(InitialDisk[args[c].json_path].data, args[c].form_name))

\* pages out is pages src page for page: same number, same order (same size, the
\* source's marks first)
SamePagesInOrder(out, src) ==
    /\ Len(out) = Len(src)
    /\ \A i \in 1..Len(src) :
           /\ out[i].w = src[i].w
           /\ out[i].h = src[i].h
           /\ StartsWith(out[i].marks, src[i].marks)

\* C1: every fill that writes its document (fill_pdf_from_chatbot or fill_pdf_form)
\* of a source read with N >= 1 pages writes a document of exactly N pages, in the
\* order of the source; the document a fill has built has N pages too.
C1_PageCount ==
    /\ [](\A c \in Callers : Built(c) => Len(reader[c]) >= 1 /\ SamePagesInOrder(writer[c], reader[c]))
    /\ [][\A c \in Callers :
             (pc[c] = "write" /\ pc'[c] = "return" /\ disk'[output_pdf[c]].kind = "pdf")
             => SamePagesInOrder(disk'[output_pdf[c]].pages, reader[c])]_vars

\* a fill_pdf_from_chatbot and a fill_pdf_form of a multi-page source have both returned
C1_Witness ==
    \E c, d \in Callers :
        /\ ChatbotCall(c) /\ args[d].fn = "fill_pdf_form"
        /\ \A e \in {c, d} : pc[e] = "done" /\ result[e].kind = "path" /\ Len(reader[e]) >= 2
        /\ disk[result[d].path] = PdfFile(writer[d])
        /\ Len(disk[result[d].path].pages) = Len(InitialDisk[P_slip].pages)

\* C2: the overlay is merged into the page at index 0 only: every page of index
\* i >= 1 of the document a fill builds and writes is identical to page i of the
\* source as it was read.
C2_OtherPagesUnchanged ==
    /\ [](\A c \in Callers : Built(c) =>
            \A i \in 2..Len(reader[c]) : i <= Len(writer[c]) /\ writer[c][i] = reader[c][i])
    /\ [][\A c \in Callers :
             (pc[c] = "write" /\ pc'[c] = "return" /\ disk'[output_pdf[c]].kind = "pdf")
             => \A i \in 2..Len(reader[c]) :
                    /\ i <= Len(disk'[output_pdf[c]].pages)
                    /\ disk'[output_pdf[c]].pages[i] = reader[c][i]]_vars

\* a fill that drew something on page 0 of a three-page source has written its document
C2_Witness ==
    \E c \in Callers :
        /\ pc[c] = "return"
        /\ Len(reader[c]) = 3
        /\ overlay[c].marks # <<>>
        /\ disk[output_pdf[c]] = PdfFile(writer[c])
        /\ writer[c][1] # reader[c][1]

\* what the coordinates file and this call's values alone make of a field
ExpectedField(cat, values) ==
    IF cat.field \in DOMAIN values
    THEN [k \in DOMAIN cat \cup {"value"} |-> IF k = "value" THEN values[cat.field] ELSE cat[k]]
    ELSE cat

ExpectedFields(c) ==
    [i \in 1..Len(CatalogFields(c)) |->
        ExpectedField(CatalogFields(c)[i], args[c].chatbot_values)]

SessionCall(c) ==
    /\ ChatbotCall(c)
    /\ DOMAIN args[c] = {"fn", "chatbot_values", "json_path", "form_name"}

\* C4 (as claimed): two sessions fill the same form with different values; when a
\* session's fill is about to return its output path, every mark of the first page of
\* the document at that path is a mark of the document this session built.
C4_SessionsIsolated ==
    \A c, d \in Callers :
        ( /\ c # d
          /\ SessionCall(c) /\ SessionCall(d)
          /\ args[c].form_name = FormSlip /\ args[d].form_name = FormSlip
          /\ args[c].chatbot_values # args[d].chatbot_values
          /\ pc[c] = "return"
          /\ disk[output_pdf[c]].kind = "pdf" )
        => \A k \in 1..Len(disk[output_pdf[c]].pages[1].marks) :
               \E j \in 1..Len(writer[c][1].marks) :
                   writer[c][1].marks[j] = disk[output_pdf[c]].pages[1].marks[k]

\* the form name equals no form_name of the coordinates file
NotFound(a) ==
    \A i \in 1..Len(InitialDisk[a.json_path].data) :
        InitialDisk[a.json_path].data[i].form_name # a.form_name

\* C5: a fill whose form_name equals, exactly, no form_name of the coordinates file
\* returns None; it never opens the source document and no step of it creates or
\* modifies a file.
C5_NotFound ==
    /\ [](\A c \in Callers :
            (pc[c] # "idle" /\ NotFound(args[c]))
            => /\ pc[c] \in {"load", "done"}
               /\ reader[c] = <<>>
               /\ pc[c] = "done" => result[c] = ReturnedNone)
    /\ [][\A c \in Callers :
             (pc[c] # "idle" /\ pc'[c] # pc[c] /\ NotFound(args[c])) => disk' = disk]_vars

\* a fill called with a name that differs from a form's only in case has returned None
C5_Witness ==
    \E c \in Callers :
        /\ pc[c] = "done"
        /\ args[c].form_name = FormSlipLower
        /\ NotFound(args[c])
        /\ result[c] = ReturnedNone
        /\ disk = InitialDisk

\* C6 (as claimed): after injection, a field whose name is a key of the values map
\* with the empty string as value still has its catalog value.
C6_EmptyValueKeepsCatalog ==
    \A c \in Callers :
        Injected(c)
        => \A i \in 1..Len(CatalogFields(c)) :
               LET cat == CatalogFields(c)[i]
               IN  (cat.field \in DOMAIN args[c].chatbot_values
                    /\ args[c].chatbot_values[cat.field] = <<>>)
                   => Get(Fields(c)[i], "value", <<>>) = Get(cat, "value", <<>>)

----------------------------------------------------------------------------
(* Properties of create_text_overlay (specification SpecRender) *)

\* a field is inert when its value is empty or its start is absent
Inert(f) ==
    \/ "value" \notin DOMAIN f
    \/ f.value = <<>>
    \/ "start" \notin DOMAIN f

RECURSIVE WithoutInert(_)
WithoutInert(fields) ==
    IF fields = <<>> THEN <<>>
    ELSE IF Inert(Head(fields)) THEN WithoutInert(Tail(fields))
    ELSE <<Head(fields)>> \o WithoutInert(Tail(fields))

\* the loop is about to process field f
Processing(f) == rPc = "loop" /\ rIdx < Len(rFields) /\ rIdx' = rIdx + 1 /\ f = rFields[rIdx + 1]

\* the draw operations the step appended to the canvas
NewOps == SubSeq(rCan'.ops, Len(rCan.ops) + 1, Len(rCan'.ops))

KeepsOps == StartsWith(rCan'.ops, rCan.ops)

\* C7: an inert field of any kind is a no-op: the canvas after the fields processed
\* so far is the canvas the same fields without the inert ones give, so an inert field
\* emits no draw and changes no draw of another field.
C7_InertNoOp ==
    (rGlobal.ok /\ rPc \in {"loop", "saved", "raised"})
    => /\ rCan = RenderFields(NewCanvas, WithoutInert(SubSeq(rFields, 1, rIdx)), rHeight, rGlobal)
       /\ (\A i \in 1..rIdx : Inert(rFields[i])) => rCan.ops = <<>>

\* an inert field was processed before a field that was drawn
C7_Witness ==
    /\ rPc = "saved"
    /\ Len(rFields) = 2
    /\ Inert(rFields[1])
    /\ "start" \in DOMAIN rFields[1]
    /\ ~Inert(rFields[2])
    /\ rCan.ops # <<>>

PlainText(f) ==
    /\ ~Inert(f)
    /\ Get(f, "type", "text") # "checkbox"
    /\ ~Get(f, "multiline", FALSE)
    /\ Get(f, "spacing", 0) = 0

\* C8: a plain text field with start (x, y) and a non-empty value on a page of height
\* h emits exactly one draw, of the whole value, at (x, h - y).
C8_TextDraw ==
    [][\A f \in FieldPool :
          (Processing(f) /\ PlainText(f))
          => /\ KeepsOps
             /\ Len(NewOps) = 1
             /\ NewOps[1].op = "drawString"
             /\ NewOps[1].text = f.value
             /\ NewOps[1].x = f.start[1]
             /\ NewOps[1].y = rHeight - f.start[2]]_vars

\* the field of the spec's first scenario was drawn at (100, 750) on a page 800 high
C8_Witness ==
    /\ rPc = "saved"
    /\ rHeight = 8000
    /\ Len(rFields) = 1
    /\ PlainText(rFields[1])
    /\ rFields[1].start = <<1000, 500>>
    /\ Len(rCan.ops) = 1
    /\ rCan.ops[1].x = 1000 /\ rCan.ops[1].y = 7500
    /\ rCan.ops[1].text = <<"1", "2", "3", "4", "5">>

SpacedText(f) ==
    /\ ~Inert(f)
    /\ Get(f, "type", "text") # "checkbox"
    /\ ~Get(f, "multiline", FALSE)
    /\ Get(f, "spacing", 0) > 0

\* C9: a spaced field with start (x0, y0), spacing s > 0 and a value of n characters
\* emits exactly n draws, the i-th (from 0) of the single character value[i] at
\* x = x0 + i*s, y = h - y0.
C9_SpacingLaw ==
    [][\A f \in FieldPool :
          (Processing(f) /\ SpacedText(f))
          => /\ KeepsOps
             /\ Len(NewOps) = Len(f.value)
             /\ \A i \in 0..(Len(f.value) - 1) :
                    /\ NewOps[i + 1].text = <<f.value[i + 1]>>
                    /\ NewOps[i + 1].x = f.start[1] + i * f.spacing
                    /\ NewOps[i + 1].y = rHeight - f.start[2]]_vars

\* the seven characters of the spec's second scenario were drawn, the last at x = 161
C9_Witness ==
    /\ rPc = "saved"
    /\ Len(rFields) = 1
    /\ SpacedText(rFields[1])
    /\ rFields[1].spacing = 185
    /\ Len(rCan.ops) = 7
    /\ rCan.ops[2].x = 685
    /\ rCan.ops[7].x = 1610
    /\ rCan.ops[7].text = <<"1">>

Multiline(f) ==
    /\ ~Inert(f)
    /\ Get(f, "type", "text") # "checkbox"
    /\ Get(f, "multiline", FALSE)

FontSizeOf(f) == Get(f, "font_size", rGlobal.size)

\* L: the field's line spacing, 1.3 times the font size by default
LineSpacingOf(f) == Get(f, "line_spacing", FontSizeOf(f) * 13)

\* H = |end.y - start.y|, end defaulting to start
BoxHeightOf(f) == Abs(Get(f, "end", f.start)[2] - f.start[2])

WrappedLines(f) ==
    simpleSplit(f.value, resolve_font_name(rGlobal.family, Get(f, "bold", rGlobal.bold)),
                FontSizeOf(f), Abs(Get(f, "end", f.start)[1] - f.start[1]))

\* min(wrapped_line_count, floor(H/L) + 1) when H > 0, every line when H = 0
LinesDrawn(f) ==
    IF BoxHeightOf(f) > 0
    THEN Min(Len(WrappedLines(f)), (BoxHeightOf(f) \div LineSpacingOf(f)) + 1)
    ELSE Len(WrappedLines(f))

\* C10: a multiline field with box height H and line spacing L > 0 draws the first
\* min(wrapped_line_count, maxLines) wrapped lines in order, maxLines = floor(H/L) + 1
\* when H > 0 and unbounded when H = 0; the lines beyond are dropped without an error.
C10_WrapBound ==
    [][\A f \in FieldPool :
          (Processing(f) /\ Multiline(f) /\ LineSpacingOf(f) > 0)
          => /\ rPc' = "loop"
             /\ KeepsOps
             /\ Len(NewOps) = LinesDrawn(f)
             /\ \A i \in 1..LinesDrawn(f) : NewOps[i].text = WrappedLines(f)[i]]_vars

\* the spec's third scenario: H = 60, L = 14, eight wrapped lines, five drawn
C10_Witness ==
    /\ rPc = "saved"
    /\ Len(rFields) = 1
    /\ Multiline(rFields[1])
    /\ BoxHeightOf(rFields[1]) = 600
    /\ LineSpacingOf(rFields[1]) = 140
    /\ Len(WrappedLines(rFields[1])) = 8
    /\ Len(rCan.ops) = 5
    /\ rCan.ops[5].text = <<"e">>

\* C11: the i-th line (from 0) a multiline field with start (x0, y0) and line spacing L
\* draws on a page of height h is at x = x0, y = (h - y0) - i*L: every line has the
\* same x, and y strictly decreases from one line to the next when L > 0.
C11_LinePlacement ==
    [][\A f \in FieldPool :
          (Processing(f) /\ Multiline(f) /\ rCan'.raised = "")
          => /\ KeepsOps
             /\ \A i \in 0..(Len(NewOps) - 1) :
                    /\ NewOps[i + 1].op = "drawString"
                    /\ NewOps[i + 1].x = f.start[1]
                    /\ NewOps[i + 1].y = (rHeight - f.start[2]) - i * LineSpacingOf(f)
             /\ LineSpacingOf(f) > 0
                => \A i \in 1..(Len(NewOps) - 1) : NewOps[i + 1].y < NewOps[i].y]_vars

\* five lines of the spec's third scenario were drawn 14 apart downwards from (50, 600)
C11_Witness ==
    /\ rPc = "saved"
    /\ Len(rFields) = 1
    /\ Multiline(rFields[1])
    /\ rHeight = 8000
    /\ LineSpacingOf(rFields[1]) = 140
    /\ Len(rCan.ops) = 5
    /\ \A i \in 1..5 : rCan.ops[i].x = 500 /\ rCan.ops[i].y = 6000 - (i - 1) * 140

Checkbox(f) == ~Inert(f) /\ Get(f, "type", "text") = "checkbox"

\* the bold variant of each family of resolve_font_name
BoldFonts == {Fonts[k][2] : k \in DOMAIN Fonts}

\* C12: a checkbox field with start (x, y) and a non-empty value emits exactly one
\* draw, of the value verbatim, at (x, h - y), in a bold font, whatever its own bold
\* attribute and the global bold setting are and whether or not it also has multiline
\* or spacing attributes.
C12_CheckboxDraw ==
    [][\A f \in FieldPool :
          (Processing(f) /\ Checkbox(f))
          => /\ rPc' = "loop"
             /\ KeepsOps
             /\ Len(NewOps) = 1
             /\ NewOps[1].op = "drawString"
             /\ NewOps[1].text = f.value
             /\ NewOps[1].x = f.start[1]
             /\ NewOps[1].y = rHeight - f.start[2]
             /\ NewOps[1].font \in BoldFonts]_vars

\* the spec's fourth scenario, with bold false on both the field and the settings: one
\* bold "X" at (80, h - 80); and a checkbox that has multiline and spacing too
C12_Witness ==
    /\ rPc = "saved"
    /\ Len(rFields) = 2
    /\ Checkbox(rFields[1]) /\ Checkbox(rFields[2])
    /\ ~rFields[1].bold /\ ~rGlobal.bold
    /\ Get(rFields[2], "multiline", FALSE) /\ Get(rFields[2], "spacing", 0) > 0
    /\ Len(rCan.ops) = 2
    /\ rCan.ops[1].text = <<"X">> /\ rCan.ops[1].x = 800 /\ rCan.ops[1].y = rHeight - 800
    /\ rCan.ops[1].font = "Helvetica-Bold"
    /\ rCan.ops[2].text = <<"Y", "e", "s">> /\ rCan.ops[2].font \in BoldFonts

\* the style the precedence rule gives field f under the settings of the call: the
\* field's attribute, else the setting, else the hard default (size 10, bold true,
\* family Helvetica, colour (0, 0, 0.5)); a field has no family or colour attribute,
\* and a checkbox is bold whatever the rule gives (C12)
EffectiveStyle(f) ==
    [size |-> Get(f, "font_size", Get(rSettings, "font_size", 10)),
     bold |-> Get(f, "type", "text") = "checkbox" \/ Get(f, "bold", Get(rSettings, "bold", TRUE)),
     family |-> Get(rSettings, "font_family", "Helvetica"),
     color |-> IF "color" \in DOMAIN rSettings THEN hex_to_rgb(rSettings["color"]).rgb
               ELSE <<0, 0, 255>>]

\* C13 (as claimed): every draw of every rendered field is made in the effective style
\* of the field: the size, the weight, the family and the colour that the precedence
\* field attribute > caller's setting > hard default gives.
C13_StylePrecedence ==
    [][\A f \in FieldPool :
          (Processing(f) /\ ~Inert(f))
          => \A k \in 1..Len(NewOps) :
                 /\ NewOps[k].size = EffectiveStyle(f).size
                 /\ NewOps[k].font = resolve_font_name(EffectiveStyle(f).family,
                                                       EffectiveStyle(f).bold)
                 /\ NewOps[k].color = EffectiveStyle(f).color]_vars

----------------------------------------------------------------------------
(* Properties of resolve_font_name and hex_to_rgb (specification SpecStyle) *)

\* the six font names: a regular and a bold variant of each of the three families
SixVariants ==
    {"Helvetica", "Helvetica-Bold", "Courier", "Courier-Bold", "Times-Roman", "Times-Bold"}

\* C14: resolve_font_name(family, bold) returns, for Helvetica, Courier and Times-Roman,
\* the family's bold variant when bold is true and its regular variant otherwise, and
\* for every other family string the Helvetica variant of the requested weight; it
\* never fails and never returns a name outside the six variants.
C14_FontTotal ==
    sPc \in {"font", "done"}
    => /\ sFont \in SixVariants
       /\ sFont = CASE sFamily = "Helvetica" /\ sBold -> "Helvetica-Bold"
                    [] sFamily = "Helvetica" /\ ~sBold -> "Helvetica"
                    [] sFamily = "Courier" /\ sBold -> "Courier-Bold"
                    [] sFamily = "Courier" /\ ~sBold -> "Courier"
                    [] sFamily = "Times-Roman" /\ sBold -> "Times-Bold"
                    [] sFamily = "Times-Roman" /\ ~sBold -> "Times-Roman"
                    [] OTHER -> IF sBold THEN "Helvetica-Bold" ELSE "Helvetica"

\* an unknown family was resolved to regular Helvetica
C14_Witness ==
    /\ sPc = "font"
    /\ sFamily = "Arial"
    /\ ~sBold
    /\ sFont = "Helvetica"

----------------------------------------------------------------------------
(* Properties of the fill engine, continued (specification Spec) *)

\* '#' followed by exactly six hexadecimal digits
WellFormedColor(col) ==
    /\ Len(col) = 7
    /\ col[1] = "#"
    /\ \A i \in 2..7 : col[i] \in DOMAIN HexDigits

\* the three bytes of '#RRGGBB', each divided by 255 (in 510ths)
BytesOver255(col) ==
    [k \in 1..3 |-> 2 * (16 * HexDigits[col[2 * k]] + HexDigits[col[2 * k + 1]])]

HasColor(c) ==
    /\ ChatbotCall(c)
    /\ "pdf_settings" \in DOMAIN args[c]
    /\ "color" \in DOMAIN args[c].pdf_settings

\* C15 (as claimed): a fill whose colour setting is not exactly '#' followed by six
\* hexadecimal digits fails with an error: it never builds or writes a document, so it
\* never renders with a default or partially parsed colour; a fill with a well-formed
\* '#RRGGBB' draws every mark in the three bytes each divided by 255.
C15_ColorStrict ==
    \A c \in Callers :
        HasColor(c)
        => IF WellFormedColor(args[c].pdf_settings.color)
           THEN Built(c)
                => \A k \in 1..Len(overlay[c].marks) :
                       overlay[c].marks[k].color = BytesOver255(args[c].pdf_settings.color)
           ELSE /\ ~Built(c)
                /\ pc[c] = "done" => result[c].kind = "raised"

----------------------------------------------------------------------------
(* Properties of create_text_overlay, continued (specification SpecRender) *)

\* C16 (as claimed): a multiline field without end is skipped: the step that processes
\* it emits no draw operation and the loop goes on to the other fields.
C16_InconsistentSkipped ==
    [][\A f \in FieldPool :
          (Processing(f) /\ Multiline(f) /\ "end" \notin DOMAIN f)
          => /\ rCan'.ops = rCan.ops
             /\ rPc' = "loop"]_vars

----------------------------------------------------------------------------
(* Properties of the fill engine, continued (specification Spec) *)

\* the source document of caller c cannot be read or parsed, or has no first page
SourceUnreadable(c) == disk[input_pdf[c]].kind # "pdf" \/ disk[input_pdf[c]].pages = <<>>

\* the fill of caller c failed on its source document
FailedOnSource(c) == pc[c] = "raised" /\ reader[c] = <<>>

Composited(out, src, ov) ==
    /\ out.marks = src.marks \o ov.marks
    /\ out.w = src.w
    /\ out.h = src.h

\* C18: the first page of the document a fill builds and writes holds every mark of
\* the source's first page, unchanged and in the original order, followed by the
\* overlay's marks; the overlay page has exactly the width and height read from the
\* source's first page; no existing mark is replaced or removed.
C18_CompositingOrder ==
    /\ [](\A c \in Callers :
            Built(c)
            => /\ Composited(writer[c][1], reader[c][1], overlay[c])
               /\ overlay[c].w = reader[c][1].w
               /\ overlay[c].h = reader[c][1].h)
    /\ [][\A c \in Callers :
             (pc[c] = "write" /\ pc'[c] = "return" /\ disk'[output_pdf[c]].kind = "pdf")
             => Composited(disk'[output_pdf[c]].pages[1], reader[c][1], overlay[c])]_vars

\* a fill has written a first page that holds the source's mark and then its own draws
C18_Witness ==
    \E c \in Callers :
        /\ pc[c] = "return"
        /\ args[c].form_name = FormSlip
        /\ disk[input_pdf[c]] = InitialDisk[P_slip]
        /\ overlay[c].marks # <<>>
        /\ overlay[c].w = 5950 /\ overlay[c].h = 8420
        /\ disk[output_pdf[c]].kind = "pdf"
        /\ disk[output_pdf[c]].pages[1].marks = <<OrigMark(1)>> \o overlay[c].marks

\* the form of the coordinates file the call names
CatalogForm(c) ==
    InitialDisk[args[c].json_path].data[FindForm(InitialDisk[args[c].json_path].data,
                                                 args[c].form_name)]

\* the index of the dot that begins the final extension of a path, 0 when it has none
ExtensionDot(path) ==
    IF \E i \in 1..Len(path) : path[i] = "."
    THEN CHOOSE i \in 1..Len(path) : path[i] = "." /\ \A j \in (i + 1)..Len(path) : path[j] # "."
    ELSE 0

\* the path with '_filled' inserted once, immediately before its final extension
FilledPath(path) ==
    LET d == IF ExtensionDot(path) = 0 THEN Len(path) + 1 ELSE ExtensionDot(path)
    IN  SubSeq(path, 1, d - 1) \o <<"_", "f", "i", "l", "l", "e", "d">> \o SubSeq(path, d, Len(path))

\* the fill of caller c has settled its two paths
PathsSettled(c) == ChatbotCall(c) /\ pc[c] \notin {"idle", "load"} /\ result[c] # ReturnedNone

\* C19 (as claimed): a source path left out is the path recorded with the form; an
\* output path left out is the source path with '_filled' inserted once, immediately
\* before the final extension, so that it differs from the source path; and the fill
\* does not overwrite its source document (stated for the first fill made).
C19_DefaultPaths ==
    \A c \in Callers :
        PathsSettled(c)
        => /\ ("input_pdf" \notin DOMAIN args[c] /\ "pdf_path" \in DOMAIN CatalogForm(c))
              => input_pdf[c] = CatalogForm(c).pdf_path
           /\ "output_pdf" \notin DOMAIN args[c]
              => /\ output_pdf[c] = FilledPath(input_pdf[c])
                 /\ output_pdf[c] # input_pdf[c]
                 /\ calls = 1 => disk[input_pdf[c]] = InitialDisk[input_pdf[c]]

----------------------------------------------------------------------------
(* Properties of the sessions of app.py (specification SpecApp) *)

----------------------------------------------------------------------------
(* Properties of the fill engine, continued (specification Spec) *)

\* the field names of the form of caller c
FieldNames(c) == {CatalogFields(c)[i].field : i \in 1..Len(CatalogFields(c))}

\* the values map of caller c without the keys that name no field of the form
MatchedValues(c) ==
    [k \in DOMAIN args[c].chatbot_values \cap FieldNames(c) |-> args[c].chatbot_values[k]]

\* every operation of ops is one of marks
DrawnIn(ops, marks) == \A k \in 1..Len(ops) : \E j \in 1..Len(marks) : marks[j] = ops[k]

\* C21: the injection step of fill_pdf_from_chatbot keeps the number and the order of
\* the fields and every attribute of a field other than value; it sets the value of a
\* field whose name is a key of the map to the map's value and leaves a field whose
\* name is no key as the catalog has it; the other forms are untouched. In the overlay
\* a fill builds, an unmatched field with a start and a non-empty catalog value is
\* drawn with that value, and the overlay is the one the map without its keys that
\* name no field determines.
C21_InjectionFrame ==
    /\ [][\A c \in Callers :
             (pc[c] = "inject" /\ pc'[c] = "read")
             => /\ Len(Fields(c)') = Len(CatalogFields(c))
                /\ \A i \in 1..Len(CatalogFields(c)) :
                       LET cat == CatalogFields(c)[i]
                           new == (Fields(c)')[i]
                       IN  /\ DOMAIN cat \subseteq DOMAIN new
                           /\ DOMAIN new \subseteq DOMAIN cat \cup {"value"}
                           /\ \A k \in DOMAIN cat \ {"value"} : new[k] = cat[k]
                           /\ IF cat.field \in DOMAIN args[c].chatbot_values
                              THEN new.value = args[c].chatbot_values[cat.field]
                              ELSE new = cat
                /\ \A j \in 1..Len(forms[c]) :
                       j # formIdx[c] => forms'[c][j] = forms[c][j]]_vars
    /\ [](\A c \in Callers :
            (ChatbotCall(c) /\ Built(c))
            => LET h == reader[c][1].h
                   g == ResolveGlobals(Get(args[c], "pdf_settings", EmptyDict))
               IN  /\ \A i \in 1..Len(CatalogFields(c)) :
                          LET cat == CatalogFields(c)[i]
                          IN  (cat.field \notin DOMAIN args[c].chatbot_values /\ Drawable(cat))
                              => /\ RenderField(NewCanvas, cat, h, g).ops # <<>>
                                 /\ DrawnIn(RenderField(NewCanvas, cat, h, g).ops,
                                            overlay[c].marks)
                   /\ overlay[c].marks =
                         RenderFields(NewCanvas,
                                      [i \in 1..Len(CatalogFields(c)) |->
                                          ExpectedField(CatalogFields(c)[i], MatchedValues(c))],
                                      h, g).ops)

\* one fill whose map has values for two fields of the form and none for a third, which
\* is drawn with its catalog value, and one fill whose map has only a key that names
\* no field, which draws the catalog value alone, have both returned their document
C21_Witness ==
    \E c, d \in Callers :
        /\ \A e \in {c, d} : ChatbotCall(e) /\ pc[e] = "done" /\ result[e].kind = "path"
                              /\ args[e].form_name = FormSlip
        /\ args[c].chatbot_values = [Amount |-> <<"7">>, Account |-> <<"1", "2">>]
        /\ Fields(c)[1].value = <<"1", "2">> /\ Fields(c)[3].value = <<"7">>
        /\ Fields(c)[2] = CatalogFields(c)[2]
        /\ \E j \in 1..Len(overlay[c].marks) : overlay[c].marks[j].text = <<"S", "B", "I">>
        /\ args[d].chatbot_values = [Other |-> <<"9">>]
        /\ MatchedValues(d) = EmptyDict
        /\ Len(overlay[d].marks) = 1
        /\ overlay[d].marks[1].text = <<"S", "B", "I">>

----------------------------------------------------------------------------
(* Properties of the sessions of app.py, continued (specification SpecApp) *)

\* the names of the fields of a list of fields
NamesOf(form_fields) == {Get(form_fields[i], "field", "") : i \in 1..Len(form_fields)}

\* worker c takes a select_form request that passes its checks and updates the session
SelectFormUpdates(c) == req[c] = NoRequest /\ req'[c].kind = "select_form"

\* C22 (as claimed): when select_form has updated a session, every key of the
\* session's field_values is the name of a field of the form just selected.
C22_ValuesOfSelectedForm ==
    [][\A c \in Callers :
          SelectFormUpdates(c)
          => DOMAIN sessions'[req'[c].sid].field_values
                 \subseteq NamesOf(sessions'[req'[c].sid].form_fields)]_vars

----------------------------------------------------------------------------
(* Properties of the collected values, in a session of app.py and in a FormAssistant *)
(* of chatbot.py (specification SpecChat)                                            *)

NonEmptyValues(field_values) == \A k \in DOMAIN field_values : field_values[k] # <<>>

\* every name that has a value in old has one in new, and not the empty one
KeepsValues(old, new) == \A k \in DOMAIN old : k \in DOMAIN new /\ new[k] # <<>>

\* the names of the fields that have no value yet
UnfilledNames(form_fields, field_values) ==
    {n \in NamesOf(form_fields) : n \notin DOMAIN field_values \/ field_values[n] = <<>>}

\* what a turn that extracted the fields e makes of the values old: an empty value
\* changes nothing, a non-empty one is stored under its name
Collected(old, e) ==
    LET stored == {k \in DOMAIN e : e[k] # <<>>}
    IN  [k \in DOMAIN old \cup stored |-> IF k \in stored THEN e[k] ELSE old[k]]

\* worker c answers a filling turn of its session
FillingTurnEnds(c) == req[c].kind = "handle_filling_chat" /\ req'[c] = NoRequest

\* FormAssistant.chat returns (or raises)
AssistantTurnEnds == cli.pc \in {"opening", "calling"} /\ cli'.pc # cli.pc

\* C23: every value stored in the field_values of a session or of a FormAssistant is
\* non-empty; no step removes or empties the value of a name that has one; a filling
\* turn changes field_values as its non-empty extracted fields say and in no other
\* way, leaves the form's fields as they are, and the set of unfilled fields after the
\* turn is a subset of the set before it.
C23_MonotoneValues ==
    /\ [](/\ \A sid \in SessionIds :
                Exists(sid) => NonEmptyValues(sessions[sid].field_values)
          /\ NonEmptyValues(assistant.field_values))
    /\ [][/\ \A sid \in SessionIds :
                Exists(sid)
                => KeepsValues(sessions[sid].field_values, sessions'[sid].field_values)
          /\ KeepsValues(assistant.field_values, assistant'.field_values)]_vars
    /\ [][\A c \in Callers :
             FillingTurnEnds(c)
             => LET old == sessions[req[c].sid]
                    new == sessions'[req[c].sid]
                IN  /\ \E e \in ExtractedPool :
                           new.field_values = Collected(old.field_values, e)
                    /\ new.form_fields = old.form_fields
                    /\ UnfilledNames(new.form_fields, new.field_values)
                           \subseteq UnfilledNames(old.form_fields, old.field_values)]_vars
    /\ [][AssistantTurnEnds
          => /\ \E e \in ExtractedPool :
                    assistant'.field_values = Collected(assistant.field_values, e)
             /\ assistant'.form_fields = assistant.form_fields
             /\ UnfilledNames(assistant'.form_fields, assistant'.field_values)
                    \subseteq UnfilledNames(assistant.form_fields, assistant.field_values)
             /\ (cli'.pc # "exit"
                 => {cli'.missing[i] : i \in 1..Len(cli'.missing)}
                        = UnfilledNames(assistant'.form_fields, assistant'.field_values))]_vars

\* a session that came with Branch filled for the slip has answered two filling turns
\* and holds Branch as it was and values for the two other fields
C23_Witness ==
    \E sid \in SessionIds :
        /\ Exists(sid)
        /\ sessions[sid].phase = "filling"
        /\ sessions[sid].form_name = FormSlip
        /\ sessions[sid].conversation_history = 6
        /\ sessions[sid].field_values =
               [Branch |-> <<"S", "B", "I">>, Amount |-> <<"7">>, Account |-> <<"1", "2">>]
        /\ UnfilledNames(sessions[sid].form_fields, sessions[sid].field_values) = {}
        /\ \A c \in Callers : req[c] = NoRequest
====
